---------------------------- MODULE Spec2Model ----------------------------
(* A model of the chat relay of main.py: the module-level `sessions`       *)
(* dictionary, the /chat handler (chat_endpoint) and the /reset handler     *)
(* (reset_session).                                                         *)
(*                                                                          *)
(* The handlers are coroutines on one event loop: a handler runs without    *)
(* interruption between two awaits.  chat_endpoint touches `sessions` in    *)
(* two segments, lines 32-49 (up to the awaited POST) and lines 59-74       *)
(* (after the response); reset_session touches it after its only await.    *)
(* Each segment is one action.                                              *)
(*                                                                          *)
(* Python dictionaries are objects: `sessions` maps a session id to a       *)
(* reference, and the referenced objects live in `heap`.  A Python str is   *)
(* a sequence of one-character strings.                                     *)
EXTENDS Naturals, Sequences, FiniteSets

VARIABLES
    sessions,   \* the `sessions` dict: session id -> reference into heap
    heap,       \* the live session dicts: reference -> [history |-> str]
    inflight,   \* the chat requests suspended at the awaited POST
    last,       \* the request the latest step finished, with its response
    nchat,      \* number of chat requests accepted so far
    seqlog,     \* history variable: the sequential run on each session id
    row,        \* history variable: the resets in a row just executed
    resetAt     \* history variable: when each session id was last reset

vars == <<sessions, heap, inflight, last, nchat, seqlog, row, resetAt>>

-----------------------------------------------------------------------------
(* Bounds and input domains *)

MaxChats == 3

MaxInFlight == 2

SessionIds == {"", "s1"}

Messages == {<<"a">>, <<"b">>}

ModelInputs == {"liteLLM", "gpt"}

-----------------------------------------------------------------------------
(* Python values *)

None == "<None>"

NoObj == 0

\* {}
EmptyMap == [k \in {} |-> NoObj]

SUPPORTED_MODELS == {"liteLLM"}

Whitespace == {" ", "\n"}

RECURSIVE LStrip(_)
LStrip(s) ==
    IF s # <<>> /\ Head(s) \in Whitespace THEN LStrip(Tail(s)) ELSE s

RECURSIVE RStrip(_)
RStrip(s) ==
    IF s # <<>> /\ s[Len(s)] \in Whitespace
    THEN RStrip(SubSeq(s, 1, Len(s) - 1))
    ELSE s

\* str.strip()
Strip(s) == RStrip(LStrip(s))

\* f"User: {msg.message}\n"
UserTurn(message) == <<"U", "s", "e", "r", ":", " ">> \o message \o <<"\n">>

\* f"Assistant: {reply}\n"
AssistantTurn(reply) ==
    <<"A", "s", "s", "i", "s", "t", "a", "n", "t", ":", " ">> \o reply \o <<"\n">>

\* session["history"] + "Assistant:"
Prompt(history) ==
    history \o <<"A", "s", "s", "i", "s", "t", "a", "n", "t", ":">>


-----------------------------------------------------------------------------
(* The outbound call: what the awaited client.post can end in *)

NoText == [tag |-> "missing", val |-> <<>>]

Texts ==
    { NoText,
      [tag |-> "null", val |-> <<>>],
      [tag |-> "str",  val |-> <<>>],
      [tag |-> "str",  val |-> <<" ">>],
      [tag |-> "str",  val |-> <<" ", "h", " ">>],
      [tag |-> "num",  val |-> <<"5">>] }

\* kind: the POST raised a transport error, timed out, or returned a response
\* with a status code and a body (not JSON, a JSON array, or a JSON object
\* whose "text" member is missing, null, a string or a number).
Upstream ==
    { [kind |-> k, status |-> 0, json |-> "none", text |-> NoText] :
          k \in {"transport", "timeout"} }
    \cup { [kind |-> "response", status |-> 503, json |-> "object",
            text |-> [tag |-> "str", val |-> <<" ", "h", " ">>]] }
    \cup { [kind |-> "response", status |-> 200, json |-> j, text |-> NoText] :
          j \in {"invalid", "array"} }
    \cup { [kind |-> "response", status |-> 200, json |-> "object", text |-> t] :
          t \in Texts }

\* Mutant: the POST is issued again when it is issued (a retry).
ClientPost_Twice(calls) == calls + 2

\* await client.post(...), line 49: the request has issued one more outbound
\* call.  No loop encloses the call and the except clause only raises.
ClientPost(calls) == calls + 1

\* response.raise_for_status()
IsSuccessStatus(status) == status \in 200..299

\* data.get("text", "")
DataGetText(resp) == IF resp.text.tag = "missing" THEN <<>> ELSE resp.text.val

Raised(how, cause) == [raised |-> how, cause |-> cause, reply |-> <<>>]

\* Mutant: no `if not reply` check.
TryBlock_AcceptEmpty(resp) ==
    IF resp.kind = "transport" THEN Raised("handled", "transport")
    ELSE IF resp.kind = "timeout" THEN Raised("handled", "timeout")
    ELSE IF ~IsSuccessStatus(resp.status) THEN Raised("handled", "status")
    ELSE IF resp.json = "invalid" THEN Raised("handled", "json")
    ELSE IF resp.json = "array" THEN Raised("unhandled", "attribute")
    ELSE IF resp.text.tag \in {"null", "num"}
         THEN Raised("unhandled", "attribute")
    ELSE [raised |-> "none", cause |-> "none",
          reply |-> Strip(DataGetText(resp))]

\* Mutant: no response.raise_for_status().
TryBlock_NoStatusCheck(resp) ==
    IF resp.kind = "transport" THEN Raised("handled", "transport")
    ELSE IF resp.kind = "timeout" THEN Raised("handled", "timeout")
    ELSE IF resp.json = "invalid" THEN Raised("handled", "json")
    ELSE IF resp.json = "array" THEN Raised("unhandled", "attribute")
    ELSE IF resp.text.tag \in {"null", "num"}
         THEN Raised("unhandled", "attribute")
    ELSE IF Strip(DataGetText(resp)) = <<>> THEN Raised("handled", "empty")
    ELSE [raised |-> "none", cause |-> "none",
          reply |-> Strip(DataGetText(resp))]

\* Lines 48-66: the result of the try block.
\*   raised = "none"      reply obtained
\*   raised = "handled"   httpx.HTTPError or ValueError, turned into
\*                        HTTPException(500) by the except clause
\*   raised = "unhandled" AttributeError (data is a list, or data.get returned
\*                        None or a number, which have no get / strip), not
\*                        caught by the except clause
TryBlock(resp) ==
    IF resp.kind = "transport" THEN Raised("handled", "transport")
    ELSE IF resp.kind = "timeout" THEN Raised("handled", "timeout")
    ELSE IF ~IsSuccessStatus(resp.status) THEN Raised("handled", "status")
    ELSE IF resp.json = "invalid" THEN Raised("handled", "json")
    ELSE IF resp.json = "array" THEN Raised("unhandled", "attribute")
    ELSE IF resp.text.tag \in {"null", "num"}
         THEN Raised("unhandled", "attribute")
    ELSE IF Strip(DataGetText(resp)) = <<>> THEN Raised("handled", "empty")
    ELSE [raised |-> "none", cause |-> "none",
          reply |-> Strip(DataGetText(resp))]

-----------------------------------------------------------------------------
(* The session store *)

\* What a request sees under session id s: the entry's transcript, if any.
Absent == [present |-> FALSE, history |-> <<>>]

Entry(s) ==
    IF s \in DOMAIN sessions
    THEN [present |-> TRUE, history |-> heap[sessions[s]].history]
    ELSE Absent

Store == [s \in SessionIds |-> Entry(s)]

\* Mutant: the stored transcript is never fetched.
SessionsGet_AlwaysFresh(sess, sid, fresh) == fresh

\* sessions.get(msg.session_id, {"history": ""}): the stored dict itself when
\* the key is present, else the dict the literal has just built (fresh).
SessionsGet(sess, sid, fresh) ==
    IF sid \in DOMAIN sess THEN sess[sid] ELSE fresh

\* Mutant: sessions.setdefault(...) in place of sessions.get(...).
SessionsAfterGet_SetDefault(sess, sid, obj) ==
    [k \in DOMAIN sess \cup {sid} |-> IF k \in DOMAIN sess THEN sess[k] ELSE obj]

\* `sessions` after sessions.get(msg.session_id, {"history": ""}) returned
\* obj: dict.get inserts nothing, the default is only returned.
SessionsAfterGet(sess, sid, obj) == sess

\* Mutant: the save is made under every stored key too.
SessionsSet_AllKeys(sess, sid, obj) ==
    [k \in DOMAIN sess \cup {sid} |-> obj]

\* sessions[msg.session_id] = session
SessionsSet(sess, sid, obj) ==
    [k \in DOMAIN sess \cup {sid} |-> IF k = sid THEN obj ELSE sess[k]]

\* Mutant: the pop does nothing.
SessionsPop_Keep(sess, sid) == sess

\* sessions.pop(session_id, None)
SessionsPop(sess, sid) ==
    [k \in DOMAIN sess \ {sid} |-> sess[k]]

\* Mutant: = instead of +=.
AppendHistory_Overwrite(h, obj, turn) ==
    [o \in DOMAIN h \cup {obj} |->
        IF o = obj THEN [history |-> turn] ELSE h[o]]

\* session["history"] += turn, on the dict that `obj` refers to; a dict just
\* built by the literal starts with history "".
HistoryOf(h, obj) == IF obj \in DOMAIN h THEN h[obj].history ELSE <<>>

AppendHistory(h, obj, turn) ==
    [o \in DOMAIN h \cup {obj} |->
        IF o = obj THEN [history |-> HistoryOf(h, obj) \o turn] ELSE h[o]]

\* A dict lives while `sessions` or a running handler's local `session` refers
\* to it.
Referenced(sess, running) ==
    {sess[k] : k \in DOMAIN sess} \cup {r.session : r \in running}

Collect(h, sess, running) ==
    [o \in DOMAIN h \cap Referenced(sess, running) |-> h[o]]

-----------------------------------------------------------------------------
(* Requests *)

\* `last` when the latest step finished no request.  A finished request is
\* recorded with its response and with the input its validation read: the
\* model of a chat, the session_id of a reset; a chat that made its outbound
\* call, with what the call ended in.
NoCall == [kind |-> "none", status |-> 0, json |-> "none", text |-> NoText]

NoRequest ==
    [kind |-> "none", session_id |-> None, model |-> None, calls |-> 0,
     upstream |-> NoCall,
     status |-> 0, reply |-> <<>>, detail |-> "", cause |-> "none"]

\* The /reset bodies: JSON objects with or without a "session_id" member.
ResetBodies ==
    {[keys |-> {}, session_id |-> None]}
    \cup {[keys |-> {"session_id"}, session_id |-> s] : s \in SessionIds}

\* data.get("session_id")
DataGetSessionId(body) ==
    IF "session_id" \in body.keys THEN body.session_id ELSE None

\* Mutant: `session_id == ""`.
Falsy_EmptyOnly(v) == v = ""

\* `not session_id`
Falsy(v) == v = None \/ v = ""

\* Mutant: no validation.
ModelSupported_Any(model) == TRUE

\* msg.model not in SUPPORTED_MODELS
ModelSupported(model) == model \in SUPPORTED_MODELS

\* The chat requests awaiting their outbound call on session id s.
InFlight(s) == {r \in inflight : r.sid = s}

-----------------------------------------------------------------------------
(* History variables: they record the run, the handlers never read them *)

Tainted == [ok |-> FALSE, turns |-> <<>>]

Fresh == [ok |-> TRUE, turns |-> <<>>]

\* The successful resets executed in a row, with no other request between
\* them: their session id, how many (1, or 2 for two or more), and whether
\* the first found an entry.
NoRow == [sid |-> None, count |-> 0, existed |-> FALSE]

PushReset(s) ==
    IF row.sid = s
    THEN [row EXCEPT !.count = IF row.count < 2 THEN row.count + 1 ELSE 2]
    ELSE [sid |-> s, count |-> 1, existed |-> s \in DOMAIN sessions]

\* resetAt[s]: how many chat requests had been accepted when the latest reset
\* of s succeeded; 0 when none has, and again 0 once a chat request that was in
\* flight on s during that reset has saved.  Requests are numbered as they are
\* accepted and a dict bears the number of the request that built it, so the
\* requests and the dicts numbered up to resetAt[s] are those from before the
\* reset.
NoReset == [s \in SessionIds |-> 0]

SetResetAt(s, n) == [t \in SessionIds |-> IF t = s THEN n ELSE resetAt[t]]

\* Chat request r on s was in flight while the latest reset of s succeeded.
Overtaken(r) == r.id <= resetAt[r.sid]

\* What a step records in resetAt: v when resets are tracked.
Track(tracked, v) == resetAt' = IF tracked THEN v ELSE resetAt

SetSeqlog(s, v) == [t \in SessionIds |-> IF t = s THEN v ELSE seqlog[t]]

-----------------------------------------------------------------------------
(* chat_endpoint, lines 32-49: validation, fetch-or-create, the user turn,   *)
(* the prompt, and the POST being issued                                     *)

ChatBegin(sid, message, model) ==
    /\ row' = NoRow
    /\ IF ~ModelSupported(model)
       THEN \* raise HTTPException(status_code=400, ...)
            /\ last' = [NoRequest EXCEPT !.kind = "chat", !.model = model,
                                         !.status = 400,
                                         !.detail = "Unsupported model selected."]
            /\ seqlog' = SetSeqlog(sid, Tainted)
            /\ UNCHANGED <<sessions, heap, inflight, nchat>>
       ELSE LET session == SessionsGet(sessions, sid, nchat + 1)
                heap1 == AppendHistory(heap, session, UserTurn(message))
                prompt == Prompt(heap1[session].history)
            IN
            /\ nchat < MaxChats
            /\ Cardinality(inflight) < MaxInFlight
            /\ nchat' = nchat + 1
            /\ inflight' = inflight \cup
                   {[id |-> nchat + 1, sid |-> sid, message |-> message,
                     model |-> model, session |-> session, prompt |-> prompt,
                     calls |-> ClientPost(0), read0 |-> Entry(sid),
                     rival |-> FALSE]}
            /\ heap' = heap1
            /\ seqlog' = IF InFlight(sid) = {} THEN seqlog
                         ELSE SetSeqlog(sid, Tainted)
            /\ last' = NoRequest
            /\ sessions' = SessionsAfterGet(sessions, sid, session)

(* chat_endpoint, lines 59-74: the response is checked, the assistant turn   *)
(* appended, the session saved and the reply returned; or an exception ends  *)
(* the request                                                               *)

Finished(r, resp) ==
    [NoRequest EXCEPT !.kind = "chat", !.model = r.model, !.calls = r.calls,
                      !.upstream = resp]

ChatResume(r, resp) ==
    /\ r \in inflight
    /\ row' = NoRow
    /\ UNCHANGED nchat
    /\ LET try == TryBlock(resp)
       IN
       IF try.raised = "none"
       THEN LET heap1 == AppendHistory(heap, r.session, AssistantTurn(try.reply))
            IN
            /\ sessions' = SessionsSet(sessions, r.sid, r.session)
            /\ inflight' =
                   {IF q.sid = r.sid THEN [q EXCEPT !.rival = TRUE] ELSE q :
                        q \in inflight \ {r}}
            /\ heap' = Collect(heap1, sessions', inflight')
            /\ last' = [Finished(r, resp) EXCEPT !.status = 200,
                                                 !.reply = try.reply]
            /\ seqlog' = IF seqlog[r.sid].ok
                         THEN SetSeqlog(r.sid,
                                  [ok |-> TRUE,
                                   turns |-> Append(seqlog[r.sid].turns,
                                                    <<r.message, try.reply>>)])
                         ELSE seqlog
       ELSE /\ inflight' = inflight \ {r}
            /\ heap' = Collect(heap, sessions, inflight')
            /\ last' = [Finished(r, resp) EXCEPT
                           !.status = 500, !.cause = try.cause,
                           !.detail = IF try.raised = "handled"
                                      THEN "LLM API error"
                                      ELSE "Internal Server Error"]
            /\ seqlog' = SetSeqlog(r.sid, Tainted)
            /\ UNCHANGED sessions

(* reset_session, lines 82-87 *)

Reset(body) ==
    /\ UNCHANGED <<inflight, nchat>>
    /\ LET session_id == DataGetSessionId(body)
           base == [NoRequest EXCEPT !.kind = "reset",
                                     !.session_id = session_id]
       IN
       IF Falsy(session_id)
       THEN \* raise HTTPException(status_code=400, ...)
            /\ last' = [base EXCEPT !.status = 400,
                                    !.detail = "session_id is required."]
            /\ seqlog' = SetSeqlog(session_id, Tainted)
            /\ row' = NoRow
            /\ UNCHANGED <<sessions, heap>>
       ELSE /\ sessions' = SessionsPop(sessions, session_id)
            /\ heap' = Collect(heap, sessions', inflight)
            /\ last' = [base EXCEPT !.status = 200, !.detail = "session reset"]
            /\ seqlog' = SetSeqlog(session_id,
                             IF InFlight(session_id) = {} THEN Fresh
                             ELSE Tainted)
            /\ row' = PushReset(session_id)

-----------------------------------------------------------------------------

Init ==
    /\ sessions = EmptyMap
    /\ heap = EmptyMap
    /\ inflight = {}
    /\ last = NoRequest
    /\ nchat = 0
    /\ seqlog = [s \in SessionIds |-> Fresh]
    /\ row = NoRow
    /\ resetAt = NoReset

\* The requests the server can receive, their messages taken from `messages`.
\* The handlers never read resetAt; a step records the resets in it when
\* `tracked`, and leaves it alone otherwise.
Requests(messages, tracked) ==
    \/ \E sid \in SessionIds, message \in messages, model \in ModelInputs :
          /\ ChatBegin(sid, message, model)
          /\ Track(tracked, resetAt)
    \/ \E r \in inflight, resp \in Upstream :
          /\ ChatResume(r, resp)
          /\ Track(tracked, IF last'.status = 200 /\ Overtaken(r)
                            THEN SetResetAt(r.sid, 0)
                            ELSE resetAt)
    \/ \E body \in ResetBodies :
          /\ Reset(body)
          /\ Track(tracked, IF last'.status = 200
                            THEN SetResetAt(DataGetSessionId(body), nchat)
                            ELSE resetAt)

Next == Requests(Messages, FALSE)

Spec == Init /\ [][Next]_vars

\* The outbound call of a chat in flight eventually returns a response, fails
\* or times out (the POST carries timeout=10.0), and the event loop then
\* resumes the handler.  No branch of a handler reads the message, so the
\* requests of this specification, and of TrackedSpec, all carry the same one.
LiveMessages == {<<"a">>}

LiveSpec ==
    /\ Init
    /\ [][Requests(LiveMessages, FALSE)]_vars
    /\ \A id \in 1..MaxChats :
          WF_vars(\E r \in inflight, resp \in Upstream :
                     r.id = id /\ ChatResume(r, resp) /\ UNCHANGED resetAt)

\* The same requests, with the resets recorded in resetAt.
TrackedSpec == Init /\ [][Requests(LiveMessages, TRUE)]_vars

-----------------------------------------------------------------------------
(* Steps, as the properties below recognise them *)

IsPrefix(a, b) == Len(a) <= Len(b) /\ SubSeq(b, 1, Len(a)) = a

\* The step is the first segment of chat request r, which passed validation.
BeginStep(r) == nchat' = nchat + 1 /\ r \in inflight' /\ r.id = nchat'

\* The step is the second segment of chat request r.
ResumeStep(r) == r \in inflight /\ \A q \in inflight' : q.id # r.id

SaveStep(r) == ResumeStep(r) /\ last'.status = 200

FailStep(r) == ResumeStep(r) /\ last'.status = 500

\* The step is a whole request: a chat rejected by validation, or a reset.
WholeStep(kind) ==
    /\ nchat' = nchat
    /\ {q.id : q \in inflight'} = {q.id : q \in inflight}
    /\ last'.kind = kind

RejectStep == WholeStep("chat")

ResetStep(s) == WholeStep("reset") /\ last'.session_id = s

\* r began in the step before, so no other request acted during r.
Alone(r) == last = NoRequest /\ r.id = nchat

\* "User: m1\nAssistant: r1\n..." for turns <<m1, r1>>, ...
RECURSIVE Transcript(_)
Transcript(turns) ==
    IF turns = <<>> THEN <<>>
    ELSE <<"U", "s", "e", "r", ":", " ">> \o Head(turns)[1] \o <<"\n">>
         \o <<"A", "s", "s", "i", "s", "t", "a", "n", "t", ":", " ">>
         \o Head(turns)[2] \o <<"\n">>
         \o Transcript(Tail(turns))

-----------------------------------------------------------------------------
(* C1.  Failure-atomicity of chat: when the outbound call of a chat request  *)
(* fails or returns an empty or missing reply, the transcript stored for the *)
(* session after the request equals the transcript stored before it, for an  *)
(* unseen id and for a stored one.  The request compared is one during which *)
(* no other request acted, so that only its own effect is seen.              *)
C1_FailureAtomicity ==
    [][\A r \in inflight :
          FailStep(r) /\ Alone(r) => Entry(r.sid)' = r.read0]_vars

(* C7.  A chat request mutates the store at most once, and only after its    *)
(* reply was obtained: its first segment and its failure leave the whole     *)
(* store as it was, and its save changes the entry of its own id only.       *)
C7_StoreUntouchedUntilReply ==
    [][\A r \in inflight \cup inflight' :
          /\ BeginStep(r) \/ FailStep(r) => Store' = Store
          /\ SaveStep(r) =>
                \A t \in SessionIds \ {r.sid} : Entry(t)' = Entry(t)]_vars

(* C8.  Last write wins, no merge: when two chat requests on one session id  *)
(* were in flight together and both succeed, the transcript stored by the    *)
(* later save is what that request read at its start, plus its own user turn *)
(* and its own assistant turn; nothing of the other request is in it beyond  *)
(* what was read.                                                            *)
C8_LastWriteWins ==
    [][\A r \in inflight :
          SaveStep(r) /\ r.rival =>
              Entry(r.sid)' =
                  [present |-> TRUE,
                   history |-> r.read0.history
                               \o Transcript(<<<<r.message, last'.reply>>>>)]]_vars

-----------------------------------------------------------------------------
(* C2.  Sequential consistency for a single caller: on a session id that was *)
(* absent from the store, after n >= 1 successful chat requests m1..mn made  *)
(* one after another, with no other request on that id, the stored           *)
(* transcript is exactly "User: mi\nAssistant: ri\n" for i = 1..n in order,  *)
(* ri being the reply returned for mi.  seqlog[s] holds <<mi, ri>> of such a *)
(* run, and is not ok once the run is disturbed.                             *)
C2_SequentialTranscript ==
    \A s \in SessionIds :
        seqlog[s].ok /\ InFlight(s) = {} =>
            Entry(s) = IF seqlog[s].turns = <<>> THEN Absent
                       ELSE [present |-> TRUE,
                             history |-> Transcript(seqlog[s].turns)]

\* Two requests with different messages were made one after another.
C2_Witness ==
    \E s \in SessionIds :
        /\ seqlog[s].ok
        /\ InFlight(s) = {}
        /\ Len(seqlog[s].turns) = 2
        /\ seqlog[s].turns[1][1] # seqlog[s].turns[2][1]

(* C3.  Unsupported model rejection: a chat request whose model is not in    *)
(* the allow-list ends with a 400 response, issues no outbound call (it is   *)
(* never in flight), and leaves every key and every transcript of the store  *)
(* unchanged.                                                                *)
C3_UnsupportedModelRejected ==
    /\ [](/\ \A r \in inflight : r.model \in SUPPORTED_MODELS
          /\ last.kind = "chat" /\ last.model \notin SUPPORTED_MODELS =>
                last.status = 400 /\ last.calls = 0)
    /\ [][RejectStep => sessions' = sessions /\ heap' = heap]_vars

\* A chat was rejected while the store held a session and a chat was in flight.
C3_Witness ==
    /\ last.kind = "chat"
    /\ last.model \notin SUPPORTED_MODELS
    /\ last.status = 400
    /\ DOMAIN sessions # {}
    /\ inflight # {}

(* C4.  Idempotence of reset: for a non-empty session id, resets made in a   *)
(* row each return the success status "session reset", whether or not the    *)
(* session existed; the store has no entry for the id afterwards; and a chat *)
(* on that id that follows, with no other request in flight on it, builds    *)
(* its prompt from an empty transcript.                                      *)
C4_ResetIdempotent ==
    /\ [](/\ last.kind = "reset" /\ last.session_id \notin {None, ""} =>
                last.status = 200 /\ last.detail = "session reset"
          /\ row.count >= 1 =>
                /\ row.sid \notin DOMAIN sessions
                /\ last.kind = "reset" /\ last.status = 200)
    /\ [][\A r \in inflight' :
             /\ BeginStep(r)
             /\ row.sid = r.sid /\ row.count = 2
             /\ InFlight(r.sid) = {}
             => r.prompt = <<"U", "s", "e", "r", ":", " ">> \o r.message
                           \o <<"\n", "A", "s", "s", "i", "s", "t", "a", "n",
                                "t", ":">>]_vars

\* Two resets in a row, the first of which found the session.
C4_Witness ==
    /\ row.count = 2
    /\ row.existed
    /\ row.sid \notin DOMAIN sessions
    /\ last.status = 200

(* C5.  A reset request whose session_id is missing ends with a 400 response *)
(* and leaves the store unchanged: no key removed, no transcript altered.    *)
C5_ResetMissingId ==
    /\ [](last.kind = "reset" /\ last.session_id = None => last.status = 400)
    /\ [][ResetStep(None) => sessions' = sessions /\ heap' = heap]_vars

\* A reset without session_id was rejected while the store held a session.
C5_Witness ==
    /\ last.kind = "reset"
    /\ last.session_id = None
    /\ last.status = 400
    /\ DOMAIN sessions # {}

(* C6.  History never shrinks except via reset, as claimed: in every step,   *)
(* with several chat requests in flight on one session id too, the           *)
(* transcript stored for a session after the step has the transcript stored  *)
(* before the step as a prefix, unless the step is a reset of that session.  *)
C6_NeverShrinksExceptReset ==
    [][\A s \in DOMAIN sessions :
          \/ ResetStep(s)
          \/ /\ s \in DOMAIN sessions'
             /\ IsPrefix(Entry(s).history, Entry(s)'.history)]_vars

(* C6, amended.  The same, unless the step is a reset of that session or the *)
(* save of a chat request whose transcript is not the one stored under the   *)
(* id when it saves: the entry was created or replaced by another request's  *)
(* save after this request fetched or created its transcript, and its save   *)
(* replaces the stored transcript (the last write wins).                     *)
ReplacingSave(s) ==
    \E r \in inflight : SaveStep(r) /\ r.sid = s /\ sessions[s] # r.session

C6_NeverShrinksExceptResetOrReplacingSave ==
    [][\A s \in DOMAIN sessions :
          \/ ResetStep(s)
          \/ ReplacingSave(s)
          \/ /\ s \in DOMAIN sessions'
             /\ IsPrefix(Entry(s).history, Entry(s)'.history)]_vars

\* Two chat requests in flight on one stored session, whose transcript has
\* grown by both user turns.
C6_Witness ==
    \E r, q \in inflight :
        /\ r.id < q.id
        /\ r.sid = q.sid
        /\ r.read0.present
        /\ Entry(r.sid).present
        /\ Entry(r.sid).history =
               r.read0.history \o UserTurn(r.message) \o UserTurn(q.message)

(* C9.  Session isolation: a chat request (successful, rejected or failed)   *)
(* or a reset request on session id s leaves the store entry of every other  *)
(* session id unchanged, in every interleaving of concurrent requests.       *)
C9_SessionIsolation ==
    [][/\ \A r \in inflight \cup inflight' :
             BeginStep(r) \/ ResumeStep(r) =>
                 \A t \in SessionIds \ {r.sid} : Entry(t)' = Entry(t)
       /\ RejectStep => Store' = Store
       /\ \A s \in SessionIds \cup {None} :
             ResetStep(s) =>
                 \A t \in SessionIds \ {s} : Entry(t)' = Entry(t)]_vars

\* A stored session was reset while another session was stored and a chat
\* was in flight.
C9_Witness ==
    /\ row.count >= 1
    /\ row.existed
    /\ \E t \in DOMAIN sessions : t # row.sid
    /\ inflight # {}

(* C10.  Every chat request reaches exactly one of two terminal outcomes,    *)
(* success with a reply or an error: given that the outbound call eventually *)
(* returns, fails or times out, every chat request in flight eventually      *)
(* finishes (at all times, each request is eventually not in flight), and a  *)
(* finished chat request carries either status 200 and a non-empty reply, or *)
(* an error status and an error detail, never both and never neither.        *)
Success(l) == l.status = 200 /\ l.reply # <<>>

Failure(l) == l.status \in {400, 500} /\ l.detail # ""

C10_ExactlyOneOutcome ==
    /\ \A id \in 1..MaxChats : []<>(~(\E r \in inflight : r.id = id))
    /\ [](last.kind = "chat" => (Success(last) /\ last.detail = "")
                                  \/ (Failure(last) /\ last.reply = <<>>))
    /\ [](last.kind = "chat" => ~(Success(last) /\ Failure(last)))

\* A chat request whose outbound call timed out has finished with an error,
\* while another is still in flight.
C10_Witness ==
    /\ last.kind = "chat"
    /\ last.status = 500
    /\ last.cause = "timeout"
    /\ inflight # {}

-----------------------------------------------------------------------------
(* Transcripts made of complete turns *)

\* The replies a successful outbound call can produce.
Replies == {<<"h">>}

\* h is "User: m\nAssistant: r\n" repeated: complete turns, alternating, a
\* user turn first and an assistant turn last (or h is empty).
RECURSIVE Alternates(_)
Alternates(h) ==
    \/ h = <<>>
    \/ \E m \in Messages, rep \in Replies :
          LET pair == Transcript(<<<<m, rep>>>>)
          IN /\ IsPrefix(pair, h)
             /\ Alternates(SubSeq(h, Len(pair) + 1, Len(h)))

C12_OneOutboundCall ==
    /\ [](/\ \A r \in inflight : r.calls = 1
          /\ last.kind = "chat" /\ last.model \in SUPPORTED_MODELS =>
                last.calls = 1
          /\ last.kind = "reset" => last.calls = 0)
    /\ [][/\ \A r \in inflight :
                FailStep(r) =>
                    /\ last'.calls = 1
                    /\ nchat' = nchat
                    /\ inflight' = inflight \ {r}
          /\ \A s \in SessionIds \cup {None} :
                ResetStep(s) => inflight' = inflight]_vars

\* A chat request has ended on a transport error, having made its one call,
\* and no call is outstanding.
C12_Witness ==
    /\ last.kind = "chat"
    /\ last.status = 500
    /\ last.cause = "transport"
    /\ last.calls = 1
    /\ inflight = {}

-----------------------------------------------------------------------------
(* What an outbound call ended in, as the claims below name it *)

Blank(s) == \A i \in 1..Len(s) : s[i] \in {" ", "\n"}

\* The call delivered a response with a success status.
Answered(u) == u.kind = "response" /\ u.status \in 200..299

\* The response has no text field: the body is no JSON, or no JSON object, or
\* an object without the member or with a null member.
TextMissing(u) == u.json # "object" \/ u.text.tag \in {"missing", "null"}

TextEmpty(u) == u.json = "object" /\ u.text.tag = "str" /\ Blank(u.text.val)

\* The text field is there and is not a string.
TextNotString(u) ==
    u.json = "object" /\ u.text.tag \notin {"missing", "null", "str"}

EndsWith(h, t) ==
    Len(t) <= Len(h) /\ SubSeq(h, Len(h) - Len(t) + 1, Len(h)) = t

\* The reply returned is not empty and is the text of the assistant turn that
\* ends the transcript stored by the save.
ReplyIsStoredTurn ==
    /\ [](last.kind = "chat" /\ last.status = 200 => last.reply # <<>>)
    /\ [][\A r \in inflight :
             SaveStep(r) =>
                 /\ Entry(r.sid)'.present
                 /\ EndsWith(Entry(r.sid)'.history,
                             <<"A", "s", "s", "i", "s", "t", "a", "n", "t", ":",
                               " ">> \o last'.reply \o <<"\n">>)]_vars

(* C13.  Uniform upstream failure, as claimed: a chat request ends with a    *)
(* 500 response exactly when its outbound call ends in a transport failure,  *)
(* a timeout, a non-success status, or a response whose text field is        *)
(* missing or empty after trimming; a chat request that ends with 200        *)
(* returns a non-empty reply, and that reply is the text of the assistant    *)
(* turn appended to the stored transcript.                                   *)
C13_UniformUpstreamFailure ==
    /\ [](last.kind = "chat" /\ last.calls = 1 =>
              /\ last.status \in {200, 500}
              /\ last.status = 500 <=>
                     \/ ~Answered(last.upstream)
                     \/ TextMissing(last.upstream)
                     \/ TextEmpty(last.upstream))
    /\ ReplyIsStoredTurn

(* C13, amended.  The same, the responses that end in 500 being those whose  *)
(* body is not a JSON object or whose text field is missing, not a string,   *)
(* or empty after trimming.                                                  *)
C13_UniformUpstreamFailureOrNotString ==
    /\ [](last.kind = "chat" /\ last.calls = 1 =>
              /\ last.status \in {200, 500}
              /\ last.status = 500 <=>
                     \/ ~Answered(last.upstream)
                     \/ TextMissing(last.upstream)
                     \/ TextNotString(last.upstream)
                     \/ TextEmpty(last.upstream))
    /\ ReplyIsStoredTurn

\* A chat request has ended with 500 on a response with a success status
\* whose text is a number, while the store holds a session.
C13_Witness ==
    /\ last.kind = "chat"
    /\ last.status = 500
    /\ Answered(last.upstream)
    /\ TextNotString(last.upstream)
    /\ DOMAIN sessions # {}

-----------------------------------------------------------------------------
\* The prompt of r holds the user turn of q: r built its prompt from the very
\* transcript q appended its user turn to, and the turn is there, where q put
\* it (after what q read at its start).
HoldsTurnOf(r, q) ==
    LET turn == <<"U", "s", "e", "r", ":", " ">> \o q.message \o <<"\n">>
        at == Len(q.read0.history)
    IN /\ r.session = q.session
       /\ at + Len(turn) <= Len(r.prompt)
       /\ SubSeq(r.prompt, at + 1, at + Len(turn)) = turn

(* C14.  Prompt construction: for every chat request that passes validation, *)
(* the prompt sent upstream is the transcript stored for the session at the  *)
(* moment the request started (empty if the id is unseen), followed by the   *)
(* request's user turn, followed by the trailing assistant-turn marker; it   *)
(* holds no turn of any other request in flight.                             *)
C14_PromptConstruction ==
    [][\A r \in inflight' :
          BeginStep(r) =>
              /\ r.prompt =
                     Entry(r.sid).history
                     \o <<"U", "s", "e", "r", ":", " ">> \o r.message \o <<"\n">>
                     \o <<"A", "s", "s", "i", "s", "t", "a", "n", "t", ":">>
              /\ \A q \in inflight : ~HoldsTurnOf(r, q)]_vars

(* C15.  Fetch-or-create does not insert: a session id that is absent from  *)
(* the store is added to it only by the save step of a chat request on that  *)
(* id that obtained a successful reply; the first segment of a chat request  *)
(* on an absent id, and its failure, leave the id absent.                    *)
C15_FetchOrCreateDoesNotInsert ==
    [][/\ \A s \in SessionIds \ DOMAIN sessions :
             s \in DOMAIN sessions' =>
                 \E r \in inflight :
                     SaveStep(r) /\ r.sid = s /\ last'.reply # <<>>
       /\ \A r \in inflight \cup inflight' :
             /\ BeginStep(r) \/ FailStep(r)
             /\ r.sid \notin DOMAIN sessions
             => r.sid \notin DOMAIN sessions']_vars

\* A chat request on an absent id has failed and another one on an absent id
\* is awaiting its outbound call: the store is still empty.
C15_Witness ==
    /\ last.kind = "chat"
    /\ last.status = 500
    /\ DOMAIN sessions = {}
    /\ \E r \in inflight : ~r.read0.present

-----------------------------------------------------------------------------
\* h holds the user turn of chat request r where r appended it: after what r
\* read at its start.
HoldsOwnTurn(h, r) ==
    LET turn == <<"U", "s", "e", "r", ":", " ">> \o r.message \o <<"\n">>
        at == Len(r.read0.history)
    IN /\ at + Len(turn) <= Len(h)
       /\ SubSeq(h, at + 1, at + Len(turn)) = turn

(* C16.  Reset is not undone by a chat in flight: once a reset of session id *)
(* s has returned success, no transcript later stored under s contains a     *)
(* turn that was sent before that reset started, also when a chat request on *)
(* s was awaiting its outbound call while the reset ran and succeeds         *)
(* afterwards.  The user turn of such a request, and what the request read   *)
(* at its start, were sent before the reset.                                 *)
C16_ResetNotUndone ==
    [][\A r \in inflight :
          SaveStep(r) /\ Overtaken(r) =>
              /\ ~HoldsOwnTurn(Entry(r.sid)'.history, r)
              /\ r.read0.present =>
                     ~IsPrefix(r.read0.history, Entry(r.sid)'.history)]_vars

(* C16, amended.  Once a reset of session id s has returned success, no      *)
(* transcript later stored under s contains a turn that was sent before that *)
(* reset started, unless a chat request on s that was awaiting its outbound  *)
(* call while the reset ran succeeds afterwards: its save stores the         *)
(* transcript it holds.  Until such a save, the dict stored under s was      *)
(* built by a chat request accepted after the reset, so every turn in it was *)
(* appended, and sent, after the reset.                                      *)
C16_ResetStandsUntilOvertakenSave ==
    \A s \in DOMAIN sessions :
        /\ sessions[s] > resetAt[s]
        /\ \A r \in InFlight(s) : Overtaken(r) => r.session # sessions[s]

\* A chat request that was in flight during a reset of its session id is
\* still awaiting its call, and a chat accepted after the reset has stored a
\* transcript under the id.
C16_Witness ==
    \E r \in inflight :
        /\ Overtaken(r)
        /\ r.sid \in DOMAIN sessions
        /\ sessions[r.sid] > resetAt[r.sid]

-----------------------------------------------------------------------------
(* C17.  Every session that chat can create can be removed by reset: for     *)
(* every session id that a chat request was accepted with and stored a       *)
(* transcript under, the empty string included, a reset request carrying     *)
(* that id passes validation, returns success, and removes the entry.        *)
C17_StoredSessionCanBeReset ==
    [][\A s \in DOMAIN sessions :
          ResetStep(s) =>
              /\ last'.status = 200
              /\ last'.detail = "session reset"
              /\ s \notin DOMAIN sessions']_vars

=============================================================================
